---------------------------- MODULE Spec2Model ----------------------------
(***************************************************************************)
(* A model of rbmarshal.go: the decoder of Ruby's Marshal format.          *)
(*                                                                         *)
(* A stream is a sequence of bytes (0..255) and the bufio.Reader over it   *)
(* is the stream plus `pos`, the number of bytes consumed.  Every decoder  *)
(* function of the source is an operator of the same name that takes the   *)
(* stream and the cursor and returns what the function returns plus the    *)
(* new cursor.  The mutual recursion read -> readArray/readHash -> read    *)
(* is unfolded into a state machine: `stack` holds the activation records  *)
(* of the readArray and readHash calls in progress and each step is one    *)
(* call of, or one return to, such a function.                             *)
(*                                                                         *)
(* Go's int is taken to be 64 bits wide (amd64, arm64).  An int is         *)
(* modelled by its eight two's complement bytes, least significant first.  *)
(***************************************************************************)
EXTENDS Integers, Sequences, FiniteSets, TLC

--------------------------------------------------------------------------
(* Program constants, rbmarshal.go lines 17-74 (ASCII codes of the tags). *)

marshalVersion == <<4, 8>>
fiveDigitEnc == <<6, 58>>
fourDigitEnc == <<6, 59>>
typeNil == 48
typeTrue == 84
typeFalse == 70
typeFixnum == 105
fixnumOffset == 5
typeFloat == 102
typeBignum == 108
bignumPos == 43
bignumNeg == 45
bignumOffset == 10
typeString == 34
typeRegexp == 47
typeArray == 91
typeHash == 123
typeSymbol == 58
typeSymlink == 59
typeIvar == 73
encStart == 6
semicolon == 59
colon == 58

--------------------------------------------------------------------------
(* Errors.  NoErr is Go's nil error.  EOF and ErrUnexpectedEOF are the two *)
(* end-of-input errors of package io.  A panic is not an error value: an   *)
(* operator that panics reports it in the field `panic` of its result.     *)

NoErr == "nil"
EOF == "io.EOF"
ErrUnexpectedEOF == "io.ErrUnexpectedEOF"
ErrVersion == "unsupported marshal version"
ErrSignature == "unsupported string encoding signature"
ErrSyntax == "strconv.ParseFloat: invalid syntax"
ErrRegexp == "error parsing regexp"
NoPanic == "none"
PanicSign == "unexpected sign"
PanicIndex == "index out of range"
PanicMakeslice == "makeslice: len out of range"

--------------------------------------------------------------------------
(* Go's int: eight bytes, least significant first.                         *)

Bytes == 0..255
IntWidth == 8

RECURSIVE Pow256(_)
Pow256(i) == IF i = 0 THEN 1 ELSE 256 * Pow256(i - 1)

(* int(k) for a k that fits 32 bits: the conversion sign-extends.          *)
Int64(k) ==
  [i \in 1..IntWidth |->
     IF i <= 4 THEN (k \div Pow256(i - 1)) % 256
     ELSE IF k < 0 THEN 255 ELSE 0]

(* Whether an int fits 32 bits, and then its value.                        *)
Fits32(n) ==
  \/ n[4] < 128 /\ \A i \in 5..IntWidth : n[i] = 0
  \/ n[4] >= 128 /\ \A i \in 5..IntWidth : n[i] = 255

Value32(n) ==
  n[1] + 256 * n[2] + 65536 * n[3]
  + (IF n[4] >= 128 THEN n[4] - 256 ELSE n[4]) * 16777216

IsNegative(n) == n[IntWidth] >= 128

RECURSIVE BitOr(_, _)
BitOr(a, b) ==
  IF a = 0 THEN b
  ELSE IF b = 0 THEN a
  ELSE (IF a % 2 = 1 \/ b % 2 = 1 THEN 1 ELSE 0) + 2 * BitOr(a \div 2, b \div 2)

(* n | int(b) << (8*i).  A shift by 64 bits or more gives 0 in Go.         *)
OrShifted(n, b, i) ==
  IF i < IntWidth THEN [n EXCEPT ![i + 1] = BitOr(n[i + 1], b)] ELSE n

(* ClearByte without the mask of line 178.                                 *)
ClearByteOmitted(n, i) == n

(* n &^ (0xFF << (8*i)).                                                   *)
ClearByte(n, i) ==
  IF i < IntWidth THEN [n EXCEPT ![i + 1] = 0] ELSE n

(* -n, wrapping: complement every byte and add one.                        *)
RECURSIVE AddOne(_, _)
AddOne(n, i) ==
  IF i > IntWidth THEN n
  ELSE IF n[i] = 255 THEN AddOne([n EXCEPT ![i] = 0], i + 1)
  ELSE [n EXCEPT ![i] = n[i] + 1]

Negate(n) == AddOne([i \in 1..IntWidth |-> 255 - n[i]], 1)

IsZero(n) == \A i \in 1..IntWidth : n[i] = 0

(* One step of the long division of an unsigned magnitude by ten, from the *)
(* most significant byte down: the quotient's bytes and the remainder.     *)
RECURSIVE DivTen(_, _, _)
DivTen(n, i, rem) ==
  IF i = 0 THEN [q |-> n, r |-> rem]
  ELSE LET cur == rem * 256 + n[i]
       IN  DivTen([n EXCEPT ![i] = cur \div 10], i - 1, cur % 10)

RECURSIVE Digits(_)
Digits(m) ==
  LET d == DivTen(m, IntWidth, 0)
  IN  IF IsZero(d.q) THEN <<48 + d.r>> ELSE Append(Digits(d.q), 48 + d.r)

(* strconv.Itoa: the decimal text, as bytes.                               *)
Itoa(n) ==
  IF IsNegative(n) THEN <<45>> \o Digits(Negate(n)) ELSE Digits(n)

--------------------------------------------------------------------------
(* The decoded values (interface{}).  The zero value a Go function returns *)
(* beside an error is the zero value of its result type.                   *)

Nil == [t |-> "nil"]
Bool(b) == [t |-> "bool", b |-> b]
Integer(n) == [t |-> "int", n |-> n]
Str(s) == [t |-> "string", s |-> s]
(* A float64 is kept as the text it was parsed from.                       *)
Float(s) == [t |-> "float64", s |-> s]
(* A *regexp.Regexp is kept as the expression it was compiled from.        *)
Regexp(s) == [t |-> "regexp", s |-> s]
(* A slice of length len whose first Len(a) elements have been assigned;   *)
(* the others hold nil.                                                    *)
Array(a, len) == [t |-> "array", a |-> a, len |-> len]
(* A map: a function from its keys (texts) to values.                      *)
Hash(h) == [t |-> "hash", h |-> h]
EmptyMap == [k \in {} |-> Nil]

--------------------------------------------------------------------------
(* bufio.Reader over a stream s with p bytes consumed.                     *)

ReadByte(s, p) ==
  IF p < Len(s) THEN [b |-> s[p + 1], err |-> NoErr, pos |-> p + 1]
  ELSE [b |-> 0, err |-> EOF, pos |-> p]

(* io.ReadFull into a buffer of n bytes: no error for n = 0, io.EOF when   *)
(* no byte is left, io.ErrUnexpectedEOF when fewer than n are (they are    *)
(* consumed).                                                              *)
ReadFull(s, p, n) ==
  IF n = 0 THEN [data |-> <<>>, err |-> NoErr, pos |-> p]
  ELSE IF Len(s) - p >= n
    THEN [data |-> SubSeq(s, p + 1, p + n), err |-> NoErr, pos |-> p + n]
  ELSE IF Len(s) = p THEN [data |-> <<>>, err |-> EOF, pos |-> p]
  ELSE [data |-> SubSeq(s, p + 1, Len(s)), err |-> ErrUnexpectedEOF, pos |-> Len(s)]

(* Reader.Peek(n): the next n bytes, not consumed; io.EOF when fewer are   *)
(* left.                                                                   *)
Peek(s, p, n) ==
  IF Len(s) - p >= n THEN [bytes |-> SubSeq(s, p + 1, p + n), err |-> NoErr]
  ELSE [bytes |-> SubSeq(s, p + 1, Len(s)), err |-> EOF]

(* The length of a buffer make([]byte, n) allocates, as a number to hand   *)
(* to ReadFull: a length of 2^31 or more exceeds every stream of the       *)
(* model, and is replaced by one more than the stream's length (the        *)
(* allocation is taken to succeed).                                        *)
BufLen(n, s) == IF Fits32(n) THEN Value32(n) ELSE Len(s) + 1

--------------------------------------------------------------------------
(* The leaf decoders.  Each returns the function's results (val, err), the *)
(* cursor after it (pos) and the panic it ends in, if any.                 *)

Out(v, e, p) == [val |-> v, err |-> e, pos |-> p, panic |-> NoPanic]
Panicked(v, p, why) == [val |-> v, err |-> NoErr, pos |-> p, panic |-> why]

(* int(int8(b)).                                                           *)
int8(b) == IF b >= 128 THEN b - 256 ELSE b

(* The loops of readFixnum from iteration i on: lines 162-168 (mask FALSE) *)
(* and lines 177-184 (mask TRUE).                                          *)
RECURSIVE fixnumLoop(_, _, _, _, _, _)
fixnumLoop(s, p, c, i, n, mask) ==
  IF i >= c THEN Out(n, NoErr, p)
  ELSE LET m == IF mask THEN ClearByte(n, i) ELSE n
           rb == ReadByte(s, p)
       IN  IF rb.err # NoErr THEN Out(Int64(0), rb.err, rb.pos)
           ELSE fixnumLoop(s, rb.pos, c, i + 1, OrShifted(m, rb.b, i), mask)

readFixnum(s, p) ==
  LET rb == ReadByte(s, p)
      c == int8(rb.b)
  IN  IF rb.err # NoErr THEN Out(Int64(0), rb.err, rb.pos)
      ELSE IF c = 0 THEN Out(Int64(0), NoErr, rb.pos)
      ELSE IF c > 0
        THEN IF 4 < c /\ c < 128 THEN Out(Int64(c - fixnumOffset), NoErr, rb.pos)
             ELSE fixnumLoop(s, rb.pos, c, 0, Int64(0), FALSE)
      ELSE IF -129 < c /\ c < -4 THEN Out(Int64(c + fixnumOffset), NoErr, rb.pos)
      ELSE fixnumLoop(s, rb.pos, -c, 0, Int64(-1), TRUE)

(* The loop of readBignum, lines 209-212, from iteration i on.             *)
RECURSIVE bignumLoop(_, _, _)
bignumLoop(data, i, n) ==
  IF i >= Len(data) THEN n
  ELSE bignumLoop(data, i + 1, OrShifted(n, data[i + 1], i))

(* 2*rawLen - bignumOffset is computed in the type of rawLen, byte, and    *)
(* wraps modulo 256.                                                       *)
readBignum(s, p) ==
  LET sign == ReadByte(s, p)
      rawLen == ReadByte(s, sign.pos)
      len == (2 * rawLen.b - bignumOffset) % 256
      rd == ReadFull(s, rawLen.pos, len)
      n == bignumLoop(rd.data, 0, Int64(0))
  IN  IF sign.err # NoErr THEN Out(Int64(0), sign.err, sign.pos)
      ELSE IF rawLen.err # NoErr THEN Out(Int64(0), rawLen.err, rawLen.pos)
      ELSE IF rd.err # NoErr THEN Out(Int64(0), rd.err, rd.pos)
      ELSE IF sign.b = bignumPos THEN Out(n, NoErr, rd.pos)
      ELSE IF sign.b = bignumNeg THEN Out(Negate(n), NoErr, rd.pos)
      ELSE Panicked(Int64(0), rd.pos, PanicSign)

stripEncoding(s, p) ==
  LET signature == ReadFull(s, p, 2)
      len == IF signature.data = fiveDigitEnc THEN 3 ELSE 2
      enc == ReadFull(s, signature.pos, len)
  IN  IF signature.err # NoErr THEN [err |-> signature.err, pos |-> signature.pos]
      ELSE IF signature.data # fiveDigitEnc /\ signature.data # fourDigitEnc
        THEN [err |-> ErrSignature, pos |-> signature.pos]
      ELSE [err |-> enc.err, pos |-> enc.pos]

(* make([]byte, len) panics for a negative len.  (Here and below, the      *)
(* result of a call is bound as the parameter of a local operator.)        *)
readBinaryString(s, p) ==
  LET Rest(len) ==
        LET str == ReadFull(s, len.pos, BufLen(len.val, s))
        IN  IF len.err # NoErr THEN Out(<<>>, len.err, len.pos)
            ELSE IF IsNegative(len.val) THEN Panicked(<<>>, len.pos, PanicMakeslice)
            ELSE IF str.err # NoErr THEN Out(<<>>, str.err, str.pos)
            ELSE Out(str.data, NoErr, str.pos)
  IN  Rest(readFixnum(s, p))

readEncodedString(s, p) ==
  LET Rest(len) ==
        LET str == ReadFull(s, len.pos, BufLen(len.val, s))
            enc == stripEncoding(s, str.pos)
        IN  IF len.err # NoErr THEN Out(<<>>, len.err, len.pos)
            ELSE IF IsNegative(len.val) THEN Panicked(<<>>, len.pos, PanicMakeslice)
            ELSE IF str.err # NoErr THEN Out(<<>>, str.err, str.pos)
            ELSE IF enc.err # NoErr THEN Out(<<>>, enc.err, enc.pos)
            ELSE Out(str.data, NoErr, enc.pos)
  IN  Rest(readFixnum(s, p))

readString(s, p) ==
  LET bytes == Peek(s, p, 1)
  IN  IF bytes.err # NoErr THEN Out(<<>>, bytes.err, p)
      ELSE IF bytes.bytes[1] # typeString THEN readBinaryString(s, p)
      ELSE readEncodedString(s, ReadByte(s, p).pos)

(* strconv.ParseFloat, for texts made of a sign, digits and one point:     *)
(* [+-]? (digits+ [. digits*] | . digits+).  Every other byte is taken to  *)
(* make the text unparsable; the streams of the model hold no exponent,    *)
(* no hexadecimal float and no spelling of infinity or NaN but "inf".      *)
IsDigit(b) == 48 <= b /\ b <= 57

parseFloatOK(str) ==
  LET body == IF str # <<>> /\ str[1] \in {43, 45} THEN Tail(str) ELSE str
      points == {i \in 1..Len(body) : body[i] = 46}
  IN  /\ \A i \in 1..Len(body) : IsDigit(body[i]) \/ body[i] = 46
      /\ Cardinality(points) <= 1
      /\ \E i \in 1..Len(body) : IsDigit(body[i])

Inf == <<105, 110, 102>>
MinusInf == <<45, 105, 110, 102>>

readFloat(s, p) ==
  LET Rest(str) ==
        IF str.panic # NoPanic THEN Panicked(Float(<<48>>), str.pos, str.panic)
        ELSE IF str.err # NoErr THEN Out(Float(<<48>>), str.err, str.pos)
        ELSE IF str.val = Inf \/ str.val = MinusInf
          THEN Out(Float(str.val), NoErr, str.pos)
        ELSE IF parseFloatOK(str.val) THEN Out(Float(str.val), NoErr, str.pos)
        ELSE Out(Float(<<48>>), ErrSyntax, str.pos)
  IN  Rest(readString(s, p))

(* The inline flags readRegexp puts before the expression, lines 373-391:  *)
(* "(?i)", "(?s)", "(?is)" or nothing.                                     *)
regexpFlags(options) ==
  IF options \in {1, 3} THEN <<40, 63, 105, 41>>
  ELSE IF options \in {4, 6} THEN <<40, 63, 115, 41>>
  ELSE IF options \in {5, 7} THEN <<40, 63, 105, 115, 41>>
  ELSE <<>>

(* Whether regexp.Compile accepts the expression str (after any of the     *)
(* flag groups above), for the bytes the streams of the model hold: a      *)
(* byte above 127 is invalid UTF-8, a '[' opens a class that nothing       *)
(* closes, and a '+' needs an operand that is not itself a repetition.     *)
(* Every other byte of the model's streams is a literal.                   *)
regexpCompiles(str) ==
  \A i \in 1..Len(str) :
    /\ str[i] < 128
    /\ str[i] # 91
    /\ str[i] = 43 => (i > 1 /\ str[i - 1] # 43)

(* regexp.MustCompile(""), and the nil *Regexp Compile returns beside an   *)
(* error.                                                                  *)
EmptyRegexp == Regexp(<<>>)
NilRegexp == [t |-> "regexp", s |-> <<>>, isNil |-> TRUE]

(* The error of the stripEncoding call of line 398 is dropped.             *)
readRegexp(s, p) ==
  LET Rest(str) ==
        LET options == ReadByte(s, str.pos)
            expr == regexpFlags(options.b) \o str.val
            bytes == Peek(s, options.pos, 2)
            marked == /\ bytes.bytes[1] = encStart
                      /\ bytes.bytes[2] = colon \/ bytes.bytes[2] = semicolon
            end == IF marked THEN stripEncoding(s, options.pos).pos ELSE options.pos
        IN  IF str.panic # NoPanic THEN Panicked(EmptyRegexp, str.pos, str.panic)
            ELSE IF str.err # NoErr THEN Out(EmptyRegexp, str.err, str.pos)
            ELSE IF options.err # NoErr THEN Out(EmptyRegexp, options.err, options.pos)
            ELSE IF bytes.err # NoErr THEN Out(EmptyRegexp, bytes.err, options.pos)
            ELSE IF regexpCompiles(str.val) THEN Out(Regexp(expr), NoErr, end)
            ELSE Out(NilRegexp, ErrRegexp, end)
  IN  Rest(readString(s, p))

(* readSymbol without the append of line 412.                              *)
readSymbolNoAppend(s, p, Symbols) ==
  LET Rest(str) ==
        IF str.panic # NoPanic \/ str.err # NoErr
          THEN [out |-> [str EXCEPT !.val = <<>>], Symbols |-> Symbols]
        ELSE [out |-> str, Symbols |-> Symbols]
  IN  Rest(readString(s, p))

(* readSymbol and readSymlink also return the symbol table, arg.Symbols.   *)
readSymbol(s, p, Symbols) ==
  LET Rest(str) ==
        IF str.panic # NoPanic \/ str.err # NoErr
          THEN [out |-> [str EXCEPT !.val = <<>>], Symbols |-> Symbols]
        ELSE [out |-> str, Symbols |-> Append(Symbols, str.val)]
  IN  Rest(readString(s, p))

(* arg.Symbols[i] panics for an i outside 0..len(arg.Symbols)-1.           *)
readSymlink(s, p, Symbols) ==
  LET Rest(i) ==
        IF i.err # NoErr THEN Out(<<>>, i.err, i.pos)
        ELSE IF IsNegative(i.val) \/ ~Fits32(i.val) \/ Value32(i.val) >= Len(Symbols)
          THEN Panicked(<<>>, i.pos, PanicIndex)
        ELSE Out(Symbols[Value32(i.val) + 1], NoErr, i.pos)
  IN  Rest(readFixnum(s, p))

--------------------------------------------------------------------------
(* The dispatcher.  read's cases that call no read themselves are the      *)
(* operator readLeaf; its cases readArray, readHash and readIvar are the   *)
(* actions of those names below.                                           *)

Leaf(o, v, Symbols) == [out |-> [o EXCEPT !.val = v], Symbols |-> Symbols]

(* The results wrapped as interface{} values.                              *)
AsInteger(o, Symbols) == Leaf(o, Integer(o.val), Symbols)
AsString(o, Symbols) == Leaf(o, Str(o.val), Symbols)
AsSymbol(r) == Leaf(r.out, Str(r.out.val), r.Symbols)

(* read, lines 111-142, for a tag byte other than '[', '{' and 'I', with   *)
(* the cursor p after the tag.  An unsupported tag is printed and yields   *)
(* nil, nil.                                                               *)
readLeaf(tag, s, p, Symbols) ==
  IF tag = typeNil THEN Leaf(Out(Nil, NoErr, p), Nil, Symbols)
  ELSE IF tag = typeTrue THEN Leaf(Out(Nil, NoErr, p), Bool(TRUE), Symbols)
  ELSE IF tag = typeFalse THEN Leaf(Out(Nil, NoErr, p), Bool(FALSE), Symbols)
  ELSE IF tag = typeFixnum THEN AsInteger(readFixnum(s, p), Symbols)
  ELSE IF tag = typeBignum THEN AsInteger(readBignum(s, p), Symbols)
  ELSE IF tag = typeString THEN AsString(readString(s, p), Symbols)
  ELSE IF tag = typeFloat THEN [out |-> readFloat(s, p), Symbols |-> Symbols]
  ELSE IF tag = typeRegexp THEN [out |-> readRegexp(s, p), Symbols |-> Symbols]
  ELSE IF tag = typeSymbol THEN AsSymbol(readSymbol(s, p, Symbols))
  ELSE IF tag = typeSymlink THEN AsString(readSymlink(s, p, Symbols), Symbols)
  ELSE Leaf(Out(Nil, NoErr, p), Nil, Symbols)

(* validateVersion comparing the major version only.                       *)
validateVersionMajor(s, p) ==
  LET version == ReadFull(s, p, 2)
  IN  IF version.err # NoErr THEN [err |-> version.err, pos |-> version.pos]
      ELSE IF version.data[1] # marshalVersion[1]
        THEN [err |-> ErrVersion, pos |-> version.pos]
      ELSE [err |-> NoErr, pos |-> version.pos]

validateVersion(s, p) ==
  LET version == ReadFull(s, p, 2)
  IN  IF version.err # NoErr THEN [err |-> version.err, pos |-> version.pos]
      ELSE IF version.data # marshalVersion
        THEN [err |-> ErrVersion, pos |-> version.pos]
      ELSE [err |-> NoErr, pos |-> version.pos]

(* i < size, for a loop counter i and an int size.                         *)
Less(i, size) ==
  /\ ~IsNegative(size)
  /\ ~Fits32(size) \/ i < Value32(size)

(* The key under which readHash stores a pair, lines 441-449.              *)
hashKey(key) ==
  IF key.t = "string" THEN key.s
  ELSE IF key.t = "int" THEN Itoa(key.n)
  ELSE <<>>

(* hashStore that keeps the value a key already has.                       *)
hashStoreKeepFirst(hash, k, val) ==
  [x \in DOMAIN hash \cup {k} |-> IF x \in DOMAIN hash THEN hash[x] ELSE val]

(* hash[k] = val.                                                          *)
hashStore(hash, k, val) ==
  [x \in DOMAIN hash \cup {k} |-> IF x = k THEN val ELSE hash[x]]

--------------------------------------------------------------------------
(* The state.                                                              *)

VARIABLES
  input,    \* the bytes of the stream handed to Load
  pos,      \* the reader's cursor: the number of bytes consumed
  Symbols,  \* arg.Symbols, the symbol table of the Load in progress
  stack,    \* the readArray and readHash calls in progress, innermost last
  ret,      \* what the last call of read returned, or the panic it ended in
  pc,       \* "Load": Load is to be called; "read": read is to be called;
            \* "return": read has returned to its caller; "done": Load has
            \* returned ret; "panic": the decode has panicked
  whole,    \* the accepted stream of which input is a truncation, or <<>>
  fixture   \* the known value and encoding the stream was built from

vars == <<input, pos, Symbols, stack, ret, pc, whole, fixture>>

Ret(v, e) == [val |-> v, err |-> e, panic |-> NoPanic]
Top == stack[Len(stack)]
Pop == SubSeq(stack, 1, Len(stack) - 1)

(* An activation record of readArray (awaits "elem") or of readHash        *)
(* (awaits "key" or "val").  pairs is the history of the pairs read so     *)
(* far, in read order; the code keeps no such list.                        *)
ArrayFrame(size) ==
  [fn |-> "readArray", size |-> size, i |-> 0, arr |-> <<>>,
   hash |-> EmptyMap, awaits |-> "elem", key |-> Nil, pairs |-> <<>>]
HashFrame(size) ==
  [fn |-> "readHash", size |-> size, i |-> 0, arr |-> <<>>,
   hash |-> EmptyMap, awaits |-> "key", key |-> Nil, pairs |-> <<>>]

--------------------------------------------------------------------------
(* The streams the model decodes.                                          *)

MaxLen == 3

RECURSIVE SeqsUpTo(_, _)
SeqsUpTo(A, n) ==
  IF n = 0 THEN {<<>>}
  ELSE LET shorter == SeqsUpTo(A, n - 1)
       IN  shorter \cup {Append(q, b) : q \in {x \in shorter : Len(x) = n - 1}, b \in A}

(* Bytes of a version header, right and wrong.                             *)
VersionBytes == {4, 7, 8, typeNil}

(* The bytes of the exhaustively enumerated payloads: the counts 0, 1 and  *)
(* 2 (0, 6, 7; 6 is also encStart) and tags.                               *)
RawBytes ==
  {0, 6, 7, typeNil, typeString, typeFixnum, typeArray, typeHash,
   typeSymbol, typeSymlink, typeIvar, typeRegexp}

(* The format's encoding of an integer (Ruby's w_long): 0 as the byte 0,   *)
(* 1..122 as v + 5, -123..-1 as the signed byte v - 5, and every other     *)
(* value as a signed count of bytes and then its bytes, least significant  *)
(* first, as many as it takes to leave 0 (or -1 for a negative value).     *)
RECURSIVE EncLong(_, _, _)
EncLong(x, i, acc) ==
  LET bytes == Append(acc, x % 256)
      rest == x \div 256
  IN  IF rest = 0 THEN <<i>> \o bytes
      ELSE IF rest = -1 THEN <<256 - i>> \o bytes
      ELSE EncLong(rest, i + 1, bytes)

EncFixnum(v) ==
  IF v = 0 THEN <<0>>
  ELSE IF 0 < v /\ v < 123 THEN <<v + 5>>
  ELSE IF -124 < v /\ v < 0 THEN <<(v - 5) % 256>>
  ELSE EncLong(v, 1, <<>>)

(* The integers whose encodings are decoded: the ends of every range of    *)
(* the encoding, and every integer up to FixnumRange in absolute value.    *)
FixnumRange == 3
FixnumValues ==
  (-FixnumRange..FixnumRange) \cup
  {122, 123, 255, 256, 65535, 65536, 16777215, 16777216, 2147483647,
   -123, -124, -256, -257, -65536, -65537, -16777216, -16777217, -2147483647}

Tails == {<<>>, <<typeNil>>, <<typeNil, typeNil>>}

(* A string of n bytes '1'.                                                *)
Ones(n) == [i \in 1..n |-> 49]

(* The lengths of the strings decoded: up to MaxStr, and 29, the length    *)
(* whose encoding is the byte 0x22, the tag of a string.                   *)
MaxStr == 2
StringLengths == (0..MaxStr) \cup {typeString - fixnumOffset}

(* What the fixture of a stream records: the encoding of the one value in  *)
(* the stream, bytes; that value, val; the bytes after it, tail; and, for  *)
(* an integer, its value n.                                                *)
Raw == [kind |-> "raw", bytes |-> <<>>, val |-> Nil, tail |-> <<>>, n |-> 0]
Fixture(kind, bytes, val, tail) ==
  [kind |-> kind, bytes |-> bytes, val |-> val, tail |-> tail, n |-> 0]

FixnumFixture(v, tail) ==
  [kind |-> "fixnum", bytes |-> <<typeFixnum>> \o EncFixnum(v),
   val |-> Integer(Int64(v)), tail |-> tail, n |-> v]

(* A length-prefixed string of n bytes under each tag that holds one; the  *)
(* regexp is followed by its option byte, and then by two bytes that are   *)
(* no encoding marker.                                                     *)
StringFixture(tag, n, tail) ==
  LET text == Ones(n)
      str == <<tag>> \o EncFixnum(n) \o text
  IN  IF tag = typeString THEN Fixture("string", str, Str(text), tail)
      ELSE IF tag = typeSymbol THEN Fixture("string", str, Str(text), tail)
      ELSE IF tag = typeFloat THEN Fixture("string", str, Float(text), tail)
      ELSE Fixture("string", str \o <<0>>, Regexp(text), <<typeNil, typeNil>>)

(* Known encodings, one of each tag of the format, and their values.       *)
ValueFixtures ==
  << [bytes |-> <<48>>, val |-> Nil],
     [bytes |-> <<84>>, val |-> Bool(TRUE)],
     [bytes |-> <<70>>, val |-> Bool(FALSE)],
     [bytes |-> <<105, 6>>, val |-> Integer(Int64(1))],
     [bytes |-> <<108, 43, 6, 1, 0>>, val |-> Integer(Int64(1))],
     [bytes |-> <<108, 45, 6, 0, 1>>, val |-> Integer(Int64(-256))],
     [bytes |-> <<102, 8, 49, 46, 53>>, val |-> Float(<<49, 46, 53>>)],
     [bytes |-> <<34, 6, 97>>, val |-> Str(<<97>>)],
     [bytes |-> <<91, 7, 48, 84>>, val |-> Array(<<Nil, Bool(TRUE)>>, Int64(2))],
     [bytes |-> <<123, 6, 105, 6, 34, 6, 97>>,
      val |-> Hash([k \in {<<49>>} |-> Str(<<97>>)])],
     [bytes |-> <<58, 6, 97>>, val |-> Str(<<97>>)],
     [bytes |-> <<91, 7, 58, 6, 97, 59, 0>>,
      val |-> Array(<<Str(<<97>>), Str(<<97>>)>>, Int64(2))],
     [bytes |-> <<47, 6, 97, 0>>, val |-> Regexp(<<97>>)],
     [bytes |-> <<47, 6, 97, 1>>, val |-> Regexp(<<40, 63, 105, 41, 97>>)],
     [bytes |-> <<47, 6, 97, 0, 6, 58, 6, 69, 70>>, val |-> Regexp(<<97>>)],
     [bytes |-> <<73, 34, 6, 97, 6, 58, 6, 69, 84>>, val |-> Str(<<97>>)],
     [bytes |-> <<73, 34, 6, 97, 6, 59, 0, 84>>, val |-> Str(<<97>>)] >>

RECURSIVE Concat(_)
Concat(chunks) ==
  IF chunks = <<>> THEN <<>> ELSE Head(chunks) \o Concat(Tail(chunks))

Container(tag, chunks) == <<tag>> \o EncFixnum(Len(chunks)) \o Concat(chunks)

(* Hashes of up to MaxPairs pairs, of keys of every kind (nil, true, the   *)
(* integer 1, the string "1") and two values.                              *)
MaxPairs == 2
KeyBytes == {<<48>>, <<84>>, <<105, 6>>, <<34, 6, 49>>}
ValBytes == {<<48>>, <<105, 7>>}
PairBytes == {k \o v : k \in KeyBytes, v \in ValBytes}

(* Arrays of up to MaxElems elements: the symbols a and b and references   *)
(* to the first, second and third symbol of the stream.                    *)
MaxElems == 3
Symbol(text) ==
  [symbol |-> TRUE, text |-> text, index |-> 0,
   bytes |-> <<typeSymbol>> \o EncFixnum(Len(text)) \o text]
Symlink(index) ==
  [symbol |-> FALSE, text |-> <<>>, index |-> index,
   bytes |-> <<typeSymlink>> \o EncFixnum(index)]
Elems == {Symbol(<<97>>), Symbol(<<98>>), Symlink(0), Symlink(1), Symlink(2)}

(* The texts of the symbols among the first j elements, in order.          *)
RECURSIVE SymbolsAmong(_, _)
SymbolsAmong(elems, j) ==
  IF j = 0 THEN <<>>
  ELSE IF elems[j].symbol THEN Append(SymbolsAmong(elems, j - 1), elems[j].text)
  ELSE SymbolsAmong(elems, j - 1)

(* Every reference is to a symbol that comes before it.                    *)
Resolvable(elems) ==
  \A j \in 1..Len(elems) :
    ~elems[j].symbol => elems[j].index < Len(SymbolsAmong(elems, j - 1))

(* The array the elements stand for: a symbol is its text and a reference  *)
(* with index i is the text of the (i+1)-th symbol before it.              *)
SymbolArray(elems) ==
  Array([j \in 1..Len(elems) |->
           IF elems[j].symbol THEN Str(elems[j].text)
           ELSE Str(SymbolsAmong(elems, j - 1)[elems[j].index + 1])],
        Int64(Len(elems)))

SymbolFixture(elems) ==
  LET bytes == <<typeArray>> \o EncFixnum(Len(elems))
               \o Concat([j \in 1..Len(elems) |-> elems[j].bytes])
  IN  IF Resolvable(elems) THEN Fixture("symbols", bytes, SymbolArray(elems), <<>>)
      ELSE Fixture("unresolvable", bytes, Nil, <<>>)

(* A regexp and an encoding annotation cut short: the marker 06 3A wants   *)
(* three more bytes and 06 3B two.                                         *)
Annotations ==
  {<<6, 58>>, <<6, 58, 6>>, <<6, 58, 6, 69>>, <<6, 58, 6, 69, 70>>,
   <<6, 59>>, <<6, 59, 0>>, <<6, 59, 0, 70>>}

(* Bignums: a sign byte, right or wrong, the word count and 2*w - 10       *)
(* bytes.                                                                  *)
BignumBytes ==
  {<<sign, 5>> : sign \in {bignumPos, bignumNeg, typeNil}} \cup
  {<<sign, 6, lo, hi>> : sign \in {bignumPos, bignumNeg, typeNil},
                         lo \in {1, 255}, hi \in {0, 255}}

InitState(s, f) ==
  /\ input = s
  /\ fixture = f
  /\ pos = 0
  /\ Symbols = <<>>
  /\ stack = <<>>
  /\ ret = Ret(Nil, NoErr)
  /\ pc = "Load"
  /\ whole = <<>>

InitFixture(f) == InitState(marshalVersion \o f.bytes \o f.tail, f)

Init ==
  \/ \E s \in SeqsUpTo(VersionBytes, 3) : InitState(s, Raw)
  \/ \E s \in SeqsUpTo(RawBytes, MaxLen) : InitState(marshalVersion \o s, Raw)
  \/ \E v \in FixnumValues, tail \in Tails : InitFixture(FixnumFixture(v, tail))
  \/ \E tag \in {typeString, typeSymbol, typeFloat, typeRegexp},
        n \in StringLengths, tail \in Tails :
       /\ tag = typeFloat => n > 0
       /\ InitFixture(StringFixture(tag, n, tail))
  \/ \E k \in 1..Len(ValueFixtures), tail \in Tails :
       InitFixture(Fixture("value", ValueFixtures[k].bytes, ValueFixtures[k].val, tail))
  \/ \E pairs \in SeqsUpTo(PairBytes, MaxPairs) :
       InitState(marshalVersion \o Container(typeHash, pairs), Raw)
  \/ \E elems \in SeqsUpTo(Elems, MaxElems) : InitFixture(SymbolFixture(elems))
  \/ \E a \in Annotations :
       InitState(marshalVersion \o <<typeRegexp, 0, 0>> \o a, Raw)
  \/ \E b \in BignumBytes, tail \in Tails :
       InitState(marshalVersion \o <<typeBignum>> \o b \o tail, Raw)

--------------------------------------------------------------------------
(* The steps.                                                              *)

(* Load, lines 80-86, up to its call of read.                              *)
Load ==
  /\ pc = "Load"
  /\ LET v == validateVersion(input, pos)
     IN  /\ pos' = v.pos
         /\ IF v.err # NoErr
              THEN ret' = Ret(Nil, v.err) /\ pc' = "done"
              ELSE ret' = ret /\ pc' = "read"
  /\ Symbols' = <<>>
  /\ UNCHANGED <<input, stack, whole, fixture>>

(* read for a leaf tag, or for no tag at all (the ReadByte of line 106     *)
(* fails).                                                                 *)
ReadLeaf ==
  /\ pc = "read"
  /\ LET byte == ReadByte(input, pos)
     IN  IF byte.err # NoErr
           THEN /\ ret' = Ret(Nil, byte.err)
                /\ pc' = "return"
                /\ UNCHANGED <<pos, Symbols>>
           ELSE /\ byte.b \notin {typeArray, typeHash, typeIvar}
                /\ \E r \in {readLeaf(byte.b, input, byte.pos, Symbols)} :
                     /\ pos' = r.out.pos
                     /\ Symbols' = r.Symbols
                     /\ ret' = [val |-> r.out.val, err |-> r.out.err,
                                panic |-> r.out.panic]
                     /\ pc' = IF r.out.panic # NoPanic THEN "panic" ELSE "return"
  /\ UNCHANGED <<input, stack, whole, fixture>>

(* read for '[': readArray, lines 325-331, up to its first call of read.   *)
(* make([]interface{}, size) panics for a negative size.                   *)
ReadArray ==
  /\ pc = "read"
  /\ LET byte == ReadByte(input, pos)
     IN  /\ byte.err = NoErr
         /\ byte.b = typeArray
  /\ \E size \in {readFixnum(input, pos + 1)} :
         /\ pos' = size.pos
         /\ IF size.err # NoErr
              THEN /\ ret' = Ret(Array(<<>>, Int64(0)), size.err)
                   /\ pc' = "return"
                   /\ stack' = stack
            ELSE IF IsNegative(size.val)
              THEN /\ ret' = [val |-> Nil, err |-> NoErr, panic |-> PanicMakeslice]
                   /\ pc' = "panic"
                   /\ stack' = stack
            ELSE IF ~Less(0, size.val)
              THEN /\ ret' = Ret(Array(<<>>, size.val), NoErr)
                   /\ pc' = "return"
                   /\ stack' = stack
            ELSE /\ ret' = ret
                 /\ pc' = "read"
                 /\ stack' = Append(stack, ArrayFrame(size.val))
  /\ UNCHANGED <<input, Symbols, whole, fixture>>

(* read for '{': readHash, lines 425-432, up to its first call of read.    *)
ReadHash ==
  /\ pc = "read"
  /\ LET byte == ReadByte(input, pos)
     IN  /\ byte.err = NoErr
         /\ byte.b = typeHash
  /\ \E size \in {readFixnum(input, pos + 1)} :
         /\ pos' = size.pos
         /\ IF size.err # NoErr \/ ~Less(0, size.val)
              THEN /\ ret' = Ret(Hash(EmptyMap), size.err)
                   /\ pc' = "return"
                   /\ stack' = stack
              ELSE /\ ret' = ret
                   /\ pc' = "read"
                   /\ stack' = Append(stack, HashFrame(size.val))
  /\ UNCHANGED <<input, Symbols, whole, fixture>>

(* read for 'I': readIvar, lines 224-237.  Before any tag but '"' it       *)
(* calls read and returns what read returns: the decode goes on with that  *)
(* read.                                                                   *)
ReadIvar ==
  /\ pc = "read"
  /\ LET byte == ReadByte(input, pos)
     IN  /\ byte.err = NoErr
         /\ byte.b = typeIvar
  /\ \E str \in {readString(input, pos + 1)} :
     LET byte == ReadByte(input, pos)
         bytes == Peek(input, byte.pos, 1)
     IN  /\ IF bytes.err # NoErr
              THEN /\ ret' = Ret(Str(<<>>), bytes.err)
                   /\ pc' = "return"
                   /\ pos' = byte.pos
            ELSE IF bytes.bytes[1] = typeString
              THEN /\ ret' = [val |-> Str(str.val), err |-> str.err, panic |-> str.panic]
                   /\ pc' = IF str.panic # NoPanic THEN "panic" ELSE "return"
                   /\ pos' = str.pos
            ELSE /\ ret' = ret
                 /\ pc' = "read"
                 /\ pos' = byte.pos
  /\ UNCHANGED <<input, Symbols, stack, whole, fixture>>

(* A read returns to readArray, lines 332-338: arr[i] is assigned, an      *)
(* error returns arr with it, and the loop goes on or ends.                *)
ArrayReturn ==
  /\ pc = "return"
  /\ stack # <<>>
  /\ Top.fn = "readArray"
  /\ LET arr == Append(Top.arr, ret.val)
     IN  IF ret.err # NoErr
           THEN /\ ret' = Ret(Array(arr, Top.size), ret.err)
                /\ pc' = "return"
                /\ stack' = Pop
         ELSE IF Less(Top.i + 1, Top.size)
           THEN /\ ret' = ret
                /\ pc' = "read"
                /\ stack' = Append(Pop, [Top EXCEPT !.arr = arr, !.i = Top.i + 1])
         ELSE /\ ret' = Ret(Array(arr, Top.size), NoErr)
              /\ pc' = "return"
              /\ stack' = Pop
  /\ UNCHANGED <<input, pos, Symbols, whole, fixture>>

(* A read returns to readHash, lines 432-453: the key is kept until the    *)
(* value is read, then the pair is stored; an error returns hash with it.  *)
HashReturn ==
  /\ pc = "return"
  /\ stack # <<>>
  /\ Top.fn = "readHash"
  /\ LET hash == hashStore(Top.hash, hashKey(Top.key), ret.val)
         pairs == Append(Top.pairs, <<Top.key, ret.val>>)
     IN  IF ret.err # NoErr
           THEN /\ ret' = Ret(Hash(Top.hash), ret.err)
                /\ pc' = "return"
                /\ stack' = Pop
         ELSE IF Top.awaits = "key"
           THEN /\ ret' = ret
                /\ pc' = "read"
                /\ stack' = Append(Pop, [Top EXCEPT !.key = ret.val, !.awaits = "val"])
         ELSE IF Less(Top.i + 1, Top.size)
           THEN /\ ret' = ret
                /\ pc' = "read"
                /\ stack' = Append(Pop, [Top EXCEPT !.hash = hash, !.pairs = pairs,
                                                    !.i = Top.i + 1, !.awaits = "key"])
         ELSE /\ ret' = Ret(Hash(hash), NoErr)
              /\ pc' = "return"
              /\ stack' = Pop
  /\ UNCHANGED <<input, pos, Symbols, whole, fixture>>

(* The outermost read returns to Load, line 85, and Load returns.          *)
LoadReturn ==
  /\ pc = "return"
  /\ stack = <<>>
  /\ pc' = "done"
  /\ UNCHANGED <<input, pos, Symbols, stack, ret, whole, fixture>>

(* The stream of a Load that succeeded is cut short of the value's end     *)
(* and handed to a new Load, with a reader and a symbol table of its own.  *)
Truncate ==
  /\ pc = "done"
  /\ ret.err = NoErr
  /\ whole = <<>>
  /\ \E cut \in 0..(pos - 1) : input' = SubSeq(input, 1, cut)
  /\ whole' = input
  /\ pos' = 0
  /\ Symbols' = <<>>
  /\ ret' = Ret(Nil, NoErr)
  /\ pc' = "Load"
  /\ UNCHANGED <<stack, fixture>>

Next ==
  \/ Load
  \/ ReadLeaf
  \/ ReadArray
  \/ ReadHash
  \/ ReadIvar
  \/ ArrayReturn
  \/ HashReturn
  \/ LoadReturn
  \/ Truncate

Spec == Init /\ [][Next]_vars

--------------------------------------------------------------------------
(* The properties.                                                         *)

EndOfInput == {EOF, ErrUnexpectedEOF}
FormatErrors == {ErrVersion, ErrSignature, ErrSyntax, ErrRegexp}

(* The zero value of a result type: what a Go function returns for "no     *)
(* value" beside an error.                                                 *)
ZeroValue(v) ==
  \/ v = Nil
  \/ v = Integer(Int64(0))
  \/ v = Str(<<>>)
  \/ v = Float(<<48>>)
  \/ v = EmptyRegexp
  \/ v = NilRegexp
  \/ v = Array(<<>>, Int64(0))
  \/ v = Hash(EmptyMap)

BadVersion == Len(input) >= 2 /\ SubSeq(input, 1, 2) # marshalVersion

(* C1: a stream whose first two bytes are not 04 08 makes Load fail with   *)
(* the version error with the cursor after those two bytes, the           *)
(* dispatcher never entered and the symbol table untouched; a stream of    *)
(* fewer than two bytes makes Load fail with an end-of-input error.        *)
C1_VersionChecked ==
  /\ BadVersion \/ Len(input) < 2 =>
       /\ pc \in {"Load", "done"}
       /\ pos <= 2
       /\ Symbols = <<>>
       /\ stack = <<>>
  /\ BadVersion /\ pc = "done" => ret = Ret(Nil, ErrVersion) /\ pos = 2
  /\ Len(input) < 2 /\ pc = "done" => ret.val = Nil /\ ret.err \in EndOfInput

C1_Witness ==
  /\ pc = "done"
  /\ input = <<4, 7, typeNil>>
  /\ ret.err = ErrVersion
  /\ pos = 2

(* C2: for an integer v of the fixtures (-(2^31) < v <= 2^31 - 1),         *)
(* readFixnum on the format's encoding of v returns exactly v and leaves   *)
(* the cursor right after the bytes of the encoding.                       *)
C2_FixnumRoundTrip ==
  fixture.kind = "fixnum" /\ whole = <<>> =>
    /\ pc # "panic"
    /\ pc \in {"return", "done"} =>
         /\ ret = Ret(Integer(Int64(fixture.n)), NoErr)
         /\ pos = 3 + Len(EncFixnum(fixture.n))

C2_Witness ==
  /\ fixture.kind = "fixnum"
  /\ fixture.n = -257
  /\ input = marshalVersion \o <<typeFixnum, 254, 255, 254>> \o fixture.tail
  /\ pc = "done"
  /\ ret.val = Integer(<<255, 254, 255, 255, 255, 255, 255, 255>>)

(* The steps of a decode at which read is entered with a given tag, and    *)
(* those at which it has just returned without error.                      *)
AtTag(tag) ==
  /\ pc = "read"
  /\ ReadByte(input, pos).err = NoErr
  /\ ReadByte(input, pos).b = tag

(* C3 (as claimed): a symbol backreference whose index is negative or not  *)
(* below the length of the symbol table makes read return a format error:  *)
(* no panic, no value.                                                     *)
C3_SymlinkOutOfRange ==
  [][ LET Claim(i) ==
            /\ AtTag(typeSymlink)
            /\ i.err = NoErr
            /\ IsNegative(i.val) \/ ~Fits32(i.val) \/ Value32(i.val) >= Len(Symbols)
            => /\ pc' = "return"
               /\ ret'.err \in FormatErrors
      IN  Claim(readFixnum(input, pos + 1)) ]_vars

(* C4 (as claimed): Load on a proper prefix of an accepted stream, cut     *)
(* before the end of its value, returns an end-of-input error and no       *)
(* value: no panic, no partially filled array or mapping.                  *)
C4_TruncatedInput ==
  whole # <<>> =>
    /\ pc # "panic"
    /\ pc = "done" => ret.err \in EndOfInput /\ ZeroValue(ret.val)

(* C5: within one Load the symbol table is append-only and in read order:  *)
(* a symbol tag decoded without error appends exactly its text, no other   *)
(* step changes the table, and a backreference with index i returns entry  *)
(* i of the table; so an array of symbols and backreferences decodes to    *)
(* the array in which every backreference with index i is the text of the  *)
(* (i+1)-th symbol before it.                                              *)
C5_SymbolTable ==
  /\ [][ (pc \in {"read", "return"}) =>
           LET decoded == pc' = "return" /\ ret'.err = NoErr
               Link(i) ==
                 /\ Fits32(i.val)
                 /\ Value32(i.val) \in 0..(Len(Symbols) - 1)
                 /\ ret'.val = Str(Symbols[Value32(i.val) + 1])
           IN  /\ AtTag(typeSymbol) /\ decoded =>
                    Symbols' = Append(Symbols, ret'.val.s)
               /\ ~(AtTag(typeSymbol) /\ decoded) => Symbols' = Symbols
               /\ AtTag(typeSymlink) /\ decoded => Link(readFixnum(input, pos + 1))
     ]_vars
  /\ [](fixture.kind = "symbols" /\ whole = <<>> =>
          /\ pc # "panic"
          /\ pc = "done" =>
               /\ ret = Ret(fixture.val, NoErr)
               /\ Len(Symbols) = Cardinality({j \in 1..Len(input) : input[j] = typeSymbol}))

C5_Witness ==
  /\ pc = "done"
  /\ input = marshalVersion \o <<typeArray, 8, typeSymbol, 6, 97, typeSymbol, 6, 98,
                                 typeSymlink, 6>>
  /\ Symbols = <<(<<97>>), (<<98>>)>>
  /\ ret.val.a = <<Str(<<97>>), Str(<<98>>), Str(<<98>>)>>

(* C6 (as claimed): for a stream made of the header, one value of the      *)
(* fixtures and any bytes after it, Load succeeds, returns that value and  *)
(* leaves the cursor at the first byte after the value.                    *)
C6_TrailingBytes ==
  fixture.kind = "value" /\ whole = <<>> =>
    /\ pc # "panic"
    /\ pc = "done" =>
         /\ ret = Ret(fixture.val, NoErr)
         /\ pos = Len(marshalVersion) + Len(fixture.bytes)

(* The key of a pair, as the claim gives it: a string is unchanged, an     *)
(* integer is its decimal text, every other value is the empty string.     *)
RECURSIVE DecimalDigits(_)
DecimalDigits(v) ==
  IF v < 10 THEN <<48 + v>> ELSE Append(DecimalDigits(v \div 10), 48 + (v % 10))

Decimal(v) == IF v < 0 THEN <<45>> \o DecimalDigits(-v) ELSE DecimalDigits(v)

NormalizedKey(key) ==
  IF key.t = "string" THEN key.s
  ELSE IF key.t = "int"
    THEN IF Fits32(key.n) THEN Decimal(Value32(key.n)) ELSE Itoa(key.n)
  ELSE <<>>

(* The mapping of a list of pairs: under each normalized key, the value    *)
(* of the last pair that has it.                                           *)
LastWith(pairs, k) ==
  CHOOSE j \in 1..Len(pairs) :
    /\ NormalizedKey(pairs[j][1]) = k
    /\ \A m \in (j + 1)..Len(pairs) : NormalizedKey(pairs[m][1]) # k

MappingOf(pairs) ==
  [k \in {NormalizedKey(pairs[j][1]) : j \in 1..Len(pairs)} |->
     pairs[LastWith(pairs, k)][2]]

(* C7: readHash holds, after every pair it has read, and returns, after    *)
(* the last of its n pairs, the mapping of the pairs read so far: under    *)
(* each normalized key the value of the last pair with that key, and no    *)
(* other key; for n = 0 it returns the empty mapping.                      *)
C7_HashLastWriteWins ==
  [][ /\ /\ pc = "return"
         /\ stack # <<>>
         /\ Top.fn = "readHash"
         /\ Top.awaits = "val"
         /\ ret.err = NoErr
         => LET pairs == Append(Top.pairs, <<Top.key, ret.val>>)
            IN  IF Less(Top.i + 1, Top.size)
                  THEN /\ Len(stack') = Len(stack)
                       /\ stack'[Len(stack')].hash = MappingOf(pairs)
                       /\ pc' = "read"
                  ELSE /\ ret' = Ret(Hash(MappingOf(pairs)), NoErr)
                       /\ Len(pairs) = Value32(Top.size)
                       /\ stack' = Pop
      /\ LET Empty(size) ==
               AtTag(typeHash) /\ size.err = NoErr /\ size.val = Int64(0)
               => ret' = Ret(Hash(EmptyMap), NoErr) /\ pc' = "return"
         IN  Empty(readFixnum(input, pos + 1)) ]_vars

C7_Witness ==
  /\ pc = "done"
  /\ input = marshalVersion \o <<typeHash, 7, typeFixnum, 6, typeNil,
                                 typeString, 6, 49, typeFixnum, 7>>
  /\ ret = Ret(Hash([k \in {<<49>>} |-> Integer(Int64(2))]), NoErr)

(* C8 (as claimed): a length-prefixed string of any length under the tag   *)
(* of a binary string, symbol, float or regexp is decoded as its length    *)
(* and then exactly that many bytes, returned verbatim, with no            *)
(* annotation consumed; also for the length 29, encoded as the byte 0x22.  *)
C8_BinaryString ==
  fixture.kind = "string" /\ whole = <<>> =>
    /\ pc # "panic"
    /\ pc = "done" =>
         /\ ret = Ret(fixture.val, NoErr)
         /\ pos = Len(marshalVersion) + Len(fixture.bytes)

(* The error of the encoding stripper that readRegexp runs at p, after     *)
(* the option byte, when the two bytes there are an encoding marker.       *)
StripperError(s, p) ==
  LET bytes == Peek(s, p, 2)
  IN  IF /\ bytes.err = NoErr
         /\ bytes.bytes[1] = encStart
         /\ bytes.bytes[2] \in {colon, semicolon}
        THEN stripEncoding(s, p).err
        ELSE NoErr

(* C9 (as claimed): an error is returned to the caller at once: after a    *)
(* read has returned an error no byte is read and every caller up to Load  *)
(* returns that error; and a failure of the encoding stripper after a      *)
(* regexp's option byte makes the read of the regexp return that error.    *)
C9_ErrorsPropagate ==
  [][ /\ pc = "return" /\ ret.err # NoErr =>
           /\ pc' \in {"return", "done"}
           /\ ret'.err = ret.err
           /\ pos' = pos
           /\ Len(stack') <= Len(stack)
      /\ LET Claim(str) ==
               /\ AtTag(typeRegexp)
               /\ str.err = NoErr
               /\ str.panic = NoPanic
               /\ ReadByte(input, str.pos).err = NoErr
               /\ StripperError(input, str.pos + 1) # NoErr
               => /\ pc' = "return"
                  /\ ret'.err = StripperError(input, str.pos + 1)
         IN  Claim(readString(input, pos + 1)) ]_vars

(* The magnitude of little-endian bytes.                                   *)
RECURSIVE Magnitude(_)
Magnitude(data) ==
  IF data = <<>> THEN 0 ELSE Head(data) + 256 * Magnitude(Tail(data))

(* C10 (as claimed): a bignum whose sign byte is neither '+' nor '-' makes *)
(* Load fail with a format error, without a panic; with the sign '+' or    *)
(* '-' and the word count w, the 2*w - 10 bytes after them are read and    *)
(* their little-endian magnitude is returned with that sign.               *)
C10_Bignum ==
  LET sign == input[4]
      w == input[5]
      len == 2 * w - bignumOffset
      data == SubSeq(input, 6, 5 + len)
  IN  /\ whole = <<>>
      /\ pc \in {"done", "panic"}
      /\ Len(input) >= 5
      /\ SubSeq(input, 1, 2) = marshalVersion
      /\ input[3] = typeBignum
      /\ w \in 5..6
      /\ Len(input) >= 5 + len
      => IF sign = bignumPos
           THEN pc = "done" /\ ret = Ret(Integer(Int64(Magnitude(data))), NoErr)
                /\ pos = 5 + len
         ELSE IF sign = bignumNeg
           THEN pc = "done" /\ ret = Ret(Integer(Int64(-Magnitude(data))), NoErr)
                /\ pos = 5 + len
         ELSE pc = "done" /\ ret.err \in FormatErrors

=============================================================================
